---- MODULE Spec2Model ----
(***************************************************************************)
(* A model of PolySymmetryData (src/src/polySymmetry.cpp): the symmetry    *)
(* propagation of findSymmetricalVertices over a mesh topology, the side   *)
(* classifier findVertexSides and finalizeSymmetry.                        *)
(*                                                                         *)
(* Indices are 0-based as in the source and -1 is the "unresolved"         *)
(* sentinel; TLA+ sequences are 1-based, so connectedVertices[0] of the    *)
(* source is element 1 of the modelled sequence.                           *)
(***************************************************************************)
EXTENDS Integers, Sequences, FiniteSets, TLC

\* findVertexSides / finalizeSymmetry: int LEFT = 1; int RIGHT = -1; int CENTER = 0;
LEFT == 1
RIGHT == -1
CENTER == 0

\* The longest list of left seed vertices handed to findVertexSides.
MaxLeftSeeds == 2

\* How many times findVertexSides + finalizeSymmetry run on one table.
MaxRuns == 2

(***************************************************************************)
(* Mesh topology (MeshData).  meshData.h / util.h are not part of the      *)
(* sources at hand; the adjacency tables are modelled from the data model  *)
(* of the specification: a face is its vertex loop, an edge is its two     *)
(* vertices, and every other table is derived from these.                  *)
(*                                                                         *)
(* mirrors: the vertex maps of the mesh's mirror symmetries (involutive    *)
(* automorphisms); left: for each mirror, the vertices of its left side.   *)
(***************************************************************************)

\* Two quads side by side.   0-1-2
\*                           | | |
\*                           3-4-5
Strip2 ==
  [ nV      |-> 6,
    faces   |-> << <<0, 1, 4, 3>>, <<1, 2, 5, 4>> >>,
    edges   |-> << <<0, 1>>, <<1, 2>>, <<0, 3>>, <<1, 4>>, <<2, 5>>, <<3, 4>>, <<4, 5>> >>,
    mirrors |-> << <<2, 1, 0, 5, 4, 3>>, <<3, 4, 5, 0, 1, 2>> >>,
    left    |-> << {0, 3}, {0, 1, 2} >> ]

\* A fan of four triangles around vertex 0; rim 1-2-3-4.
Fan4 ==
  [ nV      |-> 5,
    faces   |-> << <<0, 1, 2>>, <<0, 2, 3>>, <<0, 3, 4>>, <<0, 4, 1>> >>,
    edges   |-> << <<0, 1>>, <<0, 2>>, <<0, 3>>, <<0, 4>>,
                   <<1, 2>>, <<2, 3>>, <<3, 4>>, <<4, 1>> >>,
    mirrors |-> << <<0, 1, 4, 3, 2>>, <<0, 2, 1, 4, 3>> >>,
    left    |-> << {2}, {1, 4} >> ]

\* Two shells: two triangles sharing edge 1-2 (shell A), and one triangle
\* 4-5-6 on its own (shell B).
TwoShells ==
  [ nV      |-> 7,
    faces   |-> << <<0, 1, 2>>, <<1, 3, 2>>, <<4, 5, 6>> >>,
    edges   |-> << <<0, 1>>, <<0, 2>>, <<1, 2>>, <<1, 3>>, <<2, 3>>,
                   <<4, 5>>, <<5, 6>>, <<4, 6>> >>,
    mirrors |-> << <<3, 1, 2, 0, 4, 6, 5>> >>,
    left    |-> << {0, 5} >> ]

\* A closed mesh: the triangular bipyramid, equator 0-1-2, poles 3 and 4.
Bipyramid ==
  [ nV      |-> 5,
    faces   |-> << <<0, 1, 3>>, <<1, 2, 3>>, <<2, 0, 3>>,
                   <<1, 0, 4>>, <<2, 1, 4>>, <<0, 2, 4>> >>,
    edges   |-> << <<0, 1>>, <<1, 2>>, <<2, 0>>, <<0, 3>>, <<1, 3>>, <<2, 3>>,
                   <<0, 4>>, <<1, 4>>, <<2, 4>> >>,
    mirrors |-> << <<0, 1, 2, 4, 3>> >>,
    left    |-> << {3} >> ]

\* A mesh with pentagons around a hole, mirrored at the edge 0-1.  Left
\* half: quads S = 0-2-3-1 and X = 2-0-5-4, pentagon H = 3-7-4-5-6, triangle
\* P = 1-3-6; the hole is 2-3-7-4.  Vertex 3 is on S, P and H; S and H share
\* no edge.  The right half is the mirror image, vertex v + 6 for v >= 2, with
\* the loops the other way round, as in a mesh with consistent winding.
PentagonHole ==
  [ nV      |-> 14,
    faces   |-> << <<0, 2, 3, 1>>, <<2, 0, 5, 4>>, <<3, 7, 4, 5, 6>>, <<1, 3, 6>>,
                   <<1, 9, 8, 0>>, <<10, 11, 0, 8>>, <<13, 9, 12, 11, 10>>, <<12, 9, 1>> >>,
    edges   |-> << <<0, 1>>,
                   <<0, 2>>, <<2, 3>>, <<3, 1>>, <<0, 5>>, <<5, 4>>, <<4, 2>>,
                   <<5, 6>>, <<6, 3>>, <<3, 7>>, <<7, 4>>, <<6, 1>>,
                   <<0, 8>>, <<8, 9>>, <<9, 1>>, <<0, 11>>, <<11, 10>>, <<10, 8>>,
                   <<11, 12>>, <<12, 9>>, <<9, 13>>, <<13, 10>>, <<12, 1>> >>,
    mirrors |-> << <<0, 1, 8, 9, 10, 11, 12, 13, 2, 3, 4, 5, 6, 7>> >>,
    left    |-> << {2, 3, 4, 5, 6, 7} >> ]

Meshes == << Strip2, Fan4, TwoShells, Bipyramid, PentagonHole >>

\* the meshes of the whole computation, propagation and side classifier
SmallMeshes == {1, 2, 3, 4}

\* the meshes with faces of more than four vertices, for the propagation
LargeFaceMeshes == {5}

Iota(n) == [i \in 1..n |-> i - 1]
Range(s) == {s[i] : i \in DOMAIN s}

numberOfVertices(m) == Meshes[m].nV
numberOfEdges(m) == Len(Meshes[m].edges)
numberOfFaces(m) == Len(Meshes[m].faces)

Vertices(m) == 0 .. numberOfVertices(m) - 1
Edges(m) == 0 .. numberOfEdges(m) - 1
Faces(m) == 0 .. numberOfFaces(m) - 1

\* edgeData[e].connectedVertices
edgeConnectedVertices(m, e) == Meshes[m].edges[e + 1]

\* faceData[f].connectedVertices, in loop order
faceConnectedVertices(m, f) == Meshes[m].faces[f + 1]

\* the vertex after position i of a loop
LoopNext(loop, i) == loop[(i % Len(loop)) + 1]

\* the vertex before position i of a loop
LoopPrev(loop, i) == loop[((i + Len(loop) - 2) % Len(loop)) + 1]

EdgeOnFace(m, e, f) ==
  LET loop == faceConnectedVertices(m, f)
  IN  \E i \in 1..Len(loop) : {loop[i], LoopNext(loop, i)} = Range(edgeConnectedVertices(m, e))

\* edgeData[e].connectedFaces
edgeConnectedFaces(m, e) ==
  SelectSeq(Iota(numberOfFaces(m)), LAMBDA f : EdgeOnFace(m, e, f))

\* faceData[f].connectedEdges, in loop order
faceConnectedEdges(m, f) ==
  LET loop == faceConnectedVertices(m, f)
  IN  [i \in 1..Len(loop) |->
         CHOOSE e \in Edges(m) :
           Range(edgeConnectedVertices(m, e)) = {loop[i], LoopNext(loop, i)}]

\* vertexData[v].connectedEdges
vertexConnectedEdges(m, v) ==
  SelectSeq(Iota(numberOfEdges(m)), LAMBDA e : v \in Range(edgeConnectedVertices(m, e)))

\* vertexData[v].connectedVertices
vertexConnectedVertices(m, v) ==
  LET ce == vertexConnectedEdges(m, v)
  IN  [i \in 1..Len(ce) |->
         CHOOSE w \in Range(edgeConnectedVertices(m, ce[i])) \ {v} : TRUE]

\* vertexData[v].faceVertexSiblings[f]: the two neighbours of v on the loop of
\* f; nothing for a face v is not on.  The order of the two is not fixed by
\* the specification, so it is an input (order).
faceVertexSiblings(m, order, v, f) ==
  LET loop == faceConnectedVertices(m, f)
      at == {i \in 1..Len(loop) : loop[i] = v}
  IN  IF v \notin Vertices(m) \/ f \notin Faces(m) \/ at = {}
      THEN << >>
      ELSE LET i == CHOOSE j \in at : TRUE
           IN  IF order = "prevNext"
               THEN << LoopPrev(loop, i), LoopNext(loop, i) >>
               ELSE << LoopNext(loop, i), LoopPrev(loop, i) >>

\* util.h intersection: the members of a that are in b
intersection(a, b) == SelectSeq(a, LAMBDA x : x \in Range(b))

\* util.h contains
contains(s, x) == \E i \in DOMAIN s : s[i] = x

(***************************************************************************)
(* Seed selections (ComponentSelection).                                   *)
(***************************************************************************)

MirrorVertex(m, k, v) == Meshes[m].mirrors[k][v + 1]

MirrorEdge(m, k, e) ==
  CHOOSE d \in Edges(m) :
    Range(edgeConnectedVertices(m, d)) =
      {MirrorVertex(m, k, v) : v \in Range(edgeConnectedVertices(m, e))}

MirrorFace(m, k, f) ==
  CHOOSE g \in Faces(m) :
    Range(faceConnectedVertices(m, g)) =
      {MirrorVertex(m, k, v) : v \in Range(faceConnectedVertices(m, f))}

Selection(e0, e1, f0, f1, v0, v1, l) ==
  [ edgeIndices |-> <<e0, e1>>, faceIndices |-> <<f0, f1>>,
    vertexIndices |-> <<v0, v1>>, leftVertexIndex |-> l ]

\* The seeds the header comment of the source asks for: a pair of
\* symmetrical edges (two edges, not one edge twice), symmetrical faces on
\* the edges, symmetrical vertices on the edges.
SymmetricSelections(m) ==
  { Selection(c[2], MirrorEdge(m, c[1], c[2]), c[3], MirrorFace(m, c[1], c[3]),
              c[4], MirrorVertex(m, c[1], c[4]), IF c[5] THEN c[4] ELSE -1) :
      c \in { d \in (DOMAIN Meshes[m].mirrors) \X Edges(m) \X Faces(m)
                      \X Vertices(m) \X BOOLEAN :
                /\ MirrorEdge(m, d[1], d[2]) # d[2]
                /\ d[3] \in Range(edgeConnectedFaces(m, d[2]))
                /\ d[4] \in Range(edgeConnectedVertices(m, d[2])) } }

\* Every seed that is well formed (two edges, each face on its edge, each
\* vertex on its edge), symmetrical or not: the source validates nothing.
WellFormedSelections(m) ==
  { Selection(c[1], c[2], c[3], c[4], c[5], c[6], IF c[7] THEN c[5] ELSE -1) :
      c \in { d \in Edges(m) \X Edges(m) \X Faces(m) \X Faces(m)
                      \X Vertices(m) \X Vertices(m) \X BOOLEAN :
                /\ d[1] # d[2]
                /\ d[3] \in Range(edgeConnectedFaces(m, d[1]))
                /\ d[4] \in Range(edgeConnectedFaces(m, d[2]))
                /\ d[5] \in Range(edgeConnectedVertices(m, d[1]))
                /\ d[6] \in Range(edgeConnectedVertices(m, d[2])) } }

(***************************************************************************)
(* The symmetry table and its operations.  A table is a record             *)
(* [idx |-> the symmetry indices, ex |-> the examined flags].              *)
(***************************************************************************)

\* reset(): examined false, symmetry index -1
EmptyTable(S) == [idx |-> [c \in S |-> -1], ex |-> [c \in S |-> FALSE]]

\* markSymmetricalVertices without "vertexSymmetryIndices[i1] = i0"
markSymmetricalVerticesOneWay(T, i0, i1) ==
  [ idx |-> [T.idx EXCEPT ![i0] = i1],
    ex  |-> [[T.ex EXCEPT ![i0] = TRUE] EXCEPT ![i1] = TRUE] ]

markSymmetricalVertices(T, i0, i1) ==
  [ idx |-> [[T.idx EXCEPT ![i0] = i1] EXCEPT ![i1] = i0],
    ex  |-> [[T.ex EXCEPT ![i0] = TRUE] EXCEPT ![i1] = TRUE] ]

\* markSymmetricalEdges without the two writes to examinedEdges
markSymmetricalEdgesNoFlag(T, i0, i1) ==
  [ idx |-> [[T.idx EXCEPT ![i0] = i1] EXCEPT ![i1] = i0],
    ex  |-> T.ex ]

markSymmetricalEdges(T, i0, i1) ==
  [ idx |-> [[T.idx EXCEPT ![i0] = i1] EXCEPT ![i1] = i0],
    ex  |-> [[T.ex EXCEPT ![i0] = TRUE] EXCEPT ![i1] = TRUE] ]

\* markSymmetricalFaces with "faceSymmetryIndices[i1] = faceSymmetryIndices[i0]"
\* written first: i1 gets the partner i0 had, not i0
markSymmetricalFacesStale(T, i0, i1) ==
  [ idx |-> [[T.idx EXCEPT ![i1] = T.idx[i0]] EXCEPT ![i0] = i1],
    ex  |-> [[T.ex EXCEPT ![i0] = TRUE] EXCEPT ![i1] = TRUE] ]

markSymmetricalFaces(T, i0, i1) ==
  [ idx |-> [[T.idx EXCEPT ![i0] = i1] EXCEPT ![i1] = i0],
    ex  |-> [[T.ex EXCEPT ![i0] = TRUE] EXCEPT ![i1] = TRUE] ]

\* the first element of a sequence, -1 for none
FirstOrNone(s) == IF s = << >> THEN -1 ELSE s[1]

\* getUnexaminedFace with "if (examinedFaces[faceIndex])": the first examined face
getUnexaminedFaceInverted(m, exF, edgeIndex) ==
  FirstOrNone(SelectSeq(edgeConnectedFaces(m, edgeIndex), LAMBDA f : exF[f]))

getUnexaminedFace(m, exF, edgeIndex) ==
  FirstOrNone(SelectSeq(edgeConnectedFaces(m, edgeIndex), LAMBDA f : ~exF[f]))

\* getUnexaminedFaces without "if (examinedFaces[faceIndex]) continue": the
\* first two shared faces, examined or not
getUnexaminedFacesAnyShared(m, exF, edgePair) ==
  LET sharedFaces == intersection(edgeConnectedFaces(m, edgePair[1]),
                                  edgeConnectedFaces(m, edgePair[2]))
  IN  IF Len(sharedFaces) > 0
      THEN << sharedFaces[1],
              IF Len(sharedFaces) >= 2 THEN sharedFaces[2] ELSE -1 >>
      ELSE << getUnexaminedFace(m, exF, edgePair[1]),
              getUnexaminedFace(m, exF, edgePair[2]) >>

getUnexaminedFaces(m, exF, edgePair) ==
  LET sharedFaces == intersection(edgeConnectedFaces(m, edgePair[1]),
                                  edgeConnectedFaces(m, edgePair[2]))
      open == SelectSeq(sharedFaces, LAMBDA f : ~exF[f])
  IN  IF Len(sharedFaces) > 0
      THEN << IF Len(open) >= 1 THEN open[1] ELSE -1,
              IF Len(open) >= 2 THEN open[2] ELSE -1 >>
      ELSE << getUnexaminedFace(m, exF, edgePair[1]),
              getUnexaminedFace(m, exF, edgePair[2]) >>

getUnexaminedVertexSibling(m, order, exV, vertexIndex, faceIndex) ==
  FirstOrNone(SelectSeq(faceVertexSiblings(m, order, vertexIndex, faceIndex),
                        LAMBDA v : ~exV[v]))

\* the while loop of findSymmetricalVerticesOnFace
RECURSIVE FaceVerticesLoop(_, _, _, _, _)
FaceVerticesLoop(m, order, VT, faceVerticesQueue, facePair) ==
  IF faceVerticesQueue = << >>
  THEN VT
  ELSE LET vertex0 == Head(faceVerticesQueue)
           vertex1 == VT.idx[vertex0]
           nextVertex0 == getUnexaminedVertexSibling(m, order, VT.ex, vertex0, facePair[1])
           nextVertex1 == getUnexaminedVertexSibling(m, order, VT.ex, vertex1, facePair[2])
       IN  IF nextVertex0 = -1 \/ nextVertex1 = -1
           THEN FaceVerticesLoop(m, order, VT, Tail(faceVerticesQueue), facePair)
           ELSE FaceVerticesLoop(m, order,
                                 markSymmetricalVertices(VT, nextVertex0, nextVertex1),
                                 Append(Tail(faceVerticesQueue), nextVertex0), facePair)

\* the pairs that the while loop of findSymmetricalVerticesOnFace hands to
\* markSymmetricalVertices, in the order of the calls
RECURSIVE FaceVerticesMarks(_, _, _, _, _)
FaceVerticesMarks(m, order, VT, faceVerticesQueue, facePair) ==
  IF faceVerticesQueue = << >>
  THEN << >>
  ELSE LET vertex0 == Head(faceVerticesQueue)
           vertex1 == VT.idx[vertex0]
           nextVertex0 == getUnexaminedVertexSibling(m, order, VT.ex, vertex0, facePair[1])
           nextVertex1 == getUnexaminedVertexSibling(m, order, VT.ex, vertex1, facePair[2])
       IN  IF nextVertex0 = -1 \/ nextVertex1 = -1
           THEN FaceVerticesMarks(m, order, VT, Tail(faceVerticesQueue), facePair)
           ELSE << << nextVertex0, nextVertex1 >> >> \o
                FaceVerticesMarks(m, order,
                                  markSymmetricalVertices(VT, nextVertex0, nextVertex1),
                                  Append(Tail(faceVerticesQueue), nextVertex0), facePair)

findSymmetricalVerticesOnFace(m, order, VT, facePair) ==
  FaceVerticesLoop(m, order, VT,
                   SelectSeq(faceConnectedVertices(m, facePair[1]), LAMBDA v : VT.ex[v]),
                   facePair)

\* FaceEdgesLoop that takes an edge whose vertices have partners with no
\* shared edge or several for symmetrical to itself, and enqueues it
RECURSIVE FaceEdgesLoopSelfPair(_, _, _, _)
FaceEdgesLoopSelfPair(m, vidx, S, es) ==
  IF es = << >>
  THEN S
  ELSE LET e == Head(es)
           vertex0 == vidx[edgeConnectedVertices(m, e)[1]]
           vertex1 == vidx[edgeConnectedVertices(m, e)[2]]
           sharedEdges == intersection(vertexConnectedEdges(m, vertex0),
                                       vertexConnectedEdges(m, vertex1))
           edgeIndex == IF Len(sharedEdges) = 1 THEN sharedEdges[1] ELSE e
       IN  IF S.E.ex[e] THEN FaceEdgesLoopSelfPair(m, vidx, S, Tail(es))
           ELSE IF vertex0 = -1 \/ vertex1 = -1
                THEN FaceEdgesLoopSelfPair(m, vidx, S, Tail(es))
           ELSE FaceEdgesLoopSelfPair(m, vidx,
                  [ E |-> markSymmetricalEdges(S.E, e, edgeIndex),
                    q |-> IF ~S.E.ex[edgeIndex]
                          THEN Append(S.q, <<e, edgeIndex>>)
                          ELSE S.q ],
                  Tail(es))

\* the for loop of findSymmetricalEdgesOnFace over the edges es of the face;
\* S is [E |-> the edge table, q |-> symmetricalEdgesQueue]
RECURSIVE FaceEdgesLoop(_, _, _, _)
FaceEdgesLoop(m, vidx, S, es) ==
  IF es = << >>
  THEN S
  ELSE LET e == Head(es)
           vertex0 == vidx[edgeConnectedVertices(m, e)[1]]
           vertex1 == vidx[edgeConnectedVertices(m, e)[2]]
           sharedEdges == intersection(vertexConnectedEdges(m, vertex0),
                                       vertexConnectedEdges(m, vertex1))
           edgeIndex == sharedEdges[1]
       IN  IF S.E.ex[e] THEN FaceEdgesLoop(m, vidx, S, Tail(es))
           ELSE IF vertex0 = -1 \/ vertex1 = -1 THEN FaceEdgesLoop(m, vidx, S, Tail(es))
           ELSE IF Len(sharedEdges) # 1 THEN FaceEdgesLoop(m, vidx, S, Tail(es))
           ELSE FaceEdgesLoop(m, vidx,
                  [ E |-> markSymmetricalEdges(S.E, e, edgeIndex),
                    q |-> IF ~S.E.ex[edgeIndex]
                          THEN Append(S.q, <<e, edgeIndex>>)
                          ELSE S.q ],
                  Tail(es))

\* findSymmetricalEdgesOnFace that looks for the shared edge of the two
\* vertices of the edge themselves, not of their partners
findSymmetricalEdgesOnFaceOwnVertices(m, vidx, ET, symmetricalEdgesQueue, faceIndex) ==
  FaceEdgesLoop(m, [v \in DOMAIN vidx |-> v],
                [E |-> ET, q |-> symmetricalEdgesQueue],
                faceConnectedEdges(m, faceIndex))

findSymmetricalEdgesOnFace(m, vidx, ET, symmetricalEdgesQueue, faceIndex) ==
  FaceEdgesLoop(m, vidx, [E |-> ET, q |-> symmetricalEdgesQueue],
                faceConnectedEdges(m, faceIndex))

\* the edges shared by the partners of the two vertices of edge e
SharedEdges(m, vidx, e) ==
  intersection(vertexConnectedEdges(m, vidx[edgeConnectedVertices(m, e)[1]]),
               vertexConnectedEdges(m, vidx[edgeConnectedVertices(m, e)[2]]))

\* edge es[i] reaches "if (sharedEdges.size() != 1) { continue; }" and
\* continues there: it is unexamined when the for loop comes to it, the
\* partners of its vertices are resolved, and they share no edge or several
SkippedAt(m, vidx, S, es, i) ==
  /\ ~FaceEdgesLoop(m, vidx, S, SubSeq(es, 1, i - 1)).E.ex[es[i]]
  /\ vidx[edgeConnectedVertices(m, es[i])[1]] # -1
  /\ vidx[edgeConnectedVertices(m, es[i])[2]] # -1
  /\ Len(SharedEdges(m, vidx, es[i])) # 1

\* the edges of the face that the for loop skips for that reason, each with
\* the number of edges the partners of its vertices share
SkippedEdges(m, vidx, S, es) ==
  { << es[i], Len(SharedEdges(m, vidx, es[i])) >> :
      i \in { j \in 1..Len(es) : SkippedAt(m, vidx, S, es, j) } }

\* returns [V |-> the vertex table, F |-> the face table]
\* nextVertexOnEdges with the test on the first seed edge inverted: the
\* examined vertex of the edge is taken
nextVertexOnEdgesExamined(m, exV, edgeIndices) ==
  LET a0 == edgeConnectedVertices(m, edgeIndices[1])
      a1 == edgeConnectedVertices(m, edgeIndices[2])
  IN  << IF exV[a0[1]] THEN a0[1] ELSE a0[2],
         IF exV[a1[1]] THEN a1[2] ELSE a1[1] >>

\* findFirstSymmetricalVertices: nextVertex0 and nextVertex1, on each seed
\* edge the second vertex if the first is examined, the first if not
nextVertexOnEdges(m, exV, edgeIndices) ==
  LET a0 == edgeConnectedVertices(m, edgeIndices[1])
      a1 == edgeConnectedVertices(m, edgeIndices[2])
  IN  << IF exV[a0[1]] THEN a0[2] ELSE a0[1],
         IF exV[a1[1]] THEN a1[2] ELSE a1[1] >>

findFirstSymmetricalVertices(m, order, selection, VT, FT) ==
  LET V1 == markSymmetricalVertices(VT, selection.vertexIndices[1], selection.vertexIndices[2])
      F1 == markSymmetricalFaces(FT, selection.faceIndices[1], selection.faceIndices[2])
      next == nextVertexOnEdges(m, V1.ex, selection.edgeIndices)
      V2 == markSymmetricalVertices(V1, next[1], next[2])
  IN  [ V |-> findSymmetricalVerticesOnFace(m, order, V2, selection.faceIndices),
        F |-> F1 ]

(***************************************************************************)
(* State.                                                                  *)
(***************************************************************************)
VARIABLES
  mesh,                  \* meshData: an index into Meshes
  siblingOrder,          \* the order of faceVertexSiblings in meshData
  selection,             \* the ComponentSelection given to findSymmetricalVertices
  vertexTable,           \* vertexSymmetryIndices (idx) and examinedVertices (ex)
  edgeTable,             \* edgeSymmetryIndices and examinedEdges
  faceTable,             \* faceSymmetryIndices and examinedFaces
  leftSideVertexIndices, \* the member list of left vertices
  symmetricalEdgesQueue, \* the worklist of findSymmetricalVertices
  vertexSides,           \* vertexSides
  edgeSides,             \* edgeSides
  faceSides,             \* faceSides
  leftSeeds,             \* findVertexSides: its argument leftSideVertexIndices
  visitedVertices,       \* findVertexSides: visitedVertices
  nextVertexQueue,       \* findVertexSides: nextVertexQueue
  pc,                    \* where the computation stands
  outOfBounds,           \* an index of -1 has been used on a vector
  dequeued,              \* pairs popped from symmetricalEdgesQueue so far
  enqueued,              \* pairs pushed onto symmetricalEdgesQueue so far
  lastIteration,         \* how the latest iteration of the worklist loop went
  faceMarks,             \* per face, the calls of markSymmetricalFaces it was given to
  runs,                  \* completed runs of findVertexSides + finalizeSymmetry
  firstSides             \* the side arrays as the first run left them

vars == << mesh, siblingOrder, selection, vertexTable, edgeTable, faceTable,
           leftSideVertexIndices, symmetricalEdgesQueue, vertexSides, edgeSides,
           faceSides, leftSeeds, visitedVertices, nextVertexQueue, pc, outOfBounds,
           dequeued, enqueued, lastIteration, faceMarks, runs, firstSides >>

\* what findSymmetricalVertices reads and writes besides the tables
propagationVars == << leftSideVertexIndices, symmetricalEdgesQueue, dequeued, enqueued,
                      lastIteration, faceMarks >>

\* what findVertexSides and finalizeSymmetry read and write
sideVars == << vertexSides, edgeSides, faceSides, leftSeeds, visitedVertices,
               nextVertexQueue, outOfBounds, runs, firstSides >>

SiblingOrders == {"prevNext", "nextPrev"}

\* the state after initialize(): reset() has sized and cleared the tables
Reset(m) ==
  /\ vertexTable = EmptyTable(Vertices(m))
  /\ edgeTable = EmptyTable(Edges(m))
  /\ faceTable = EmptyTable(Faces(m))
  /\ leftSideVertexIndices = << >>
  /\ symmetricalEdgesQueue = << >>
  /\ vertexSides = [v \in Vertices(m) |-> -1]
  /\ edgeSides = [e \in Edges(m) |-> -1]
  /\ faceSides = [f \in Faces(m) |-> -1]
  /\ leftSeeds = << >>
  /\ visitedVertices = [v \in Vertices(m) |-> FALSE]
  /\ nextVertexQueue = << >>
  /\ pc = "start"
  /\ outOfBounds = FALSE
  /\ dequeued = 0
  /\ enqueued = 0
  /\ lastIteration = [kind |-> "none", pair |-> << >>, remarked |-> FALSE,
                      skipped |-> {}]
  /\ faceMarks = [f \in Faces(m) |-> 0]
  /\ runs = 0
  /\ firstSides = << >>

Init ==
  /\ mesh \in SmallMeshes
  /\ siblingOrder \in SiblingOrders
  /\ selection \in SymmetricSelections(mesh)
  /\ Reset(mesh)

InitAnySeed ==
  /\ mesh \in SmallMeshes
  /\ siblingOrder \in SiblingOrders
  /\ selection \in WellFormedSelections(mesh)
  /\ Reset(mesh)

\* findSymmetricalVertices up to its while loop
\* the count of calls per face after markSymmetricalFaces(pair)
Marked(marks, pair) ==
  [f \in DOMAIN marks |-> IF f \in {pair[1], pair[2]} THEN marks[f] + 1 ELSE marks[f]]

FindSymmetricalVertices ==
  /\ pc = "start"
  /\ LET first == findFirstSymmetricalVertices(mesh, siblingOrder, selection,
                                               vertexTable, faceTable)
     IN  /\ vertexTable' = first.V
         /\ faceTable' = first.F
  /\ symmetricalEdgesQueue' = << selection.edgeIndices >>
  /\ enqueued' = 1
  /\ leftSideVertexIndices' =
       IF selection.leftVertexIndex # -1
       THEN Append(leftSideVertexIndices, selection.leftVertexIndex)
       ELSE leftSideVertexIndices
  /\ faceMarks' = Marked(faceMarks, selection.faceIndices)
  /\ pc' = "loop"
  /\ UNCHANGED << mesh, siblingOrder, selection, edgeTable, dequeued, lastIteration,
                  sideVars >>

\* the pair is in the table as a pair already
AlreadyMarked(T, pair) ==
  /\ T.ex[pair[1]] /\ T.ex[pair[2]]
  /\ T.idx[pair[1]] = pair[2] /\ T.idx[pair[2]] = pair[1]

\* a dead-end iteration that takes the pair out of the table again
DeadEndIterationUnmark ==
  /\ pc = "loop"
  /\ symmetricalEdgesQueue # << >>
  /\ LET edgePair == Head(symmetricalEdgesQueue)
         facesPair == getUnexaminedFaces(mesh, faceTable.ex, edgePair)
     IN  /\ facesPair[1] = -1 \/ facesPair[2] = -1
         /\ edgeTable' =
              [ idx |-> [[edgeTable.idx EXCEPT ![edgePair[1]] = -1] EXCEPT ![edgePair[2]] = -1],
                ex  |-> [[edgeTable.ex EXCEPT ![edgePair[1]] = FALSE]
                           EXCEPT ![edgePair[2]] = FALSE] ]
         /\ lastIteration' = [kind |-> "deadEnd", pair |-> edgePair,
                              remarked |-> AlreadyMarked(edgeTable, edgePair),
                              skipped |-> {}]
  /\ symmetricalEdgesQueue' = Tail(symmetricalEdgesQueue)
  /\ dequeued' = dequeued + 1
  /\ UNCHANGED << mesh, siblingOrder, selection, vertexTable, faceTable,
                  leftSideVertexIndices, pc, enqueued, faceMarks, sideVars >>

\* one iteration of the while loop that ends at "continue"
DeadEndIteration ==
  /\ pc = "loop"
  /\ symmetricalEdgesQueue # << >>
  /\ LET edgePair == Head(symmetricalEdgesQueue)
         facesPair == getUnexaminedFaces(mesh, faceTable.ex, edgePair)
     IN  /\ facesPair[1] = -1 \/ facesPair[2] = -1
         /\ edgeTable' = markSymmetricalEdges(edgeTable, edgePair[1], edgePair[2])
         /\ lastIteration' = [kind |-> "deadEnd", pair |-> edgePair,
                              remarked |-> AlreadyMarked(edgeTable, edgePair),
                              skipped |-> {}]
  /\ symmetricalEdgesQueue' = Tail(symmetricalEdgesQueue)
  /\ dequeued' = dequeued + 1
  /\ UNCHANGED << mesh, siblingOrder, selection, vertexTable, faceTable,
                  leftSideVertexIndices, pc, enqueued, faceMarks, sideVars >>

\* one iteration of the while loop that finds a pair of unexamined faces
FacePairIteration ==
  /\ pc = "loop"
  /\ symmetricalEdgesQueue # << >>
  /\ LET edgePair == Head(symmetricalEdgesQueue)
         E1 == markSymmetricalEdges(edgeTable, edgePair[1], edgePair[2])
         facesPair == getUnexaminedFaces(mesh, faceTable.ex, edgePair)
         V1 == findSymmetricalVerticesOnFace(mesh, siblingOrder, vertexTable, facesPair)
         S == findSymmetricalEdgesOnFace(mesh, V1.idx, E1,
                                         Tail(symmetricalEdgesQueue), facesPair[1])
     IN  /\ ~(facesPair[1] = -1 \/ facesPair[2] = -1)
         /\ faceTable' = markSymmetricalFaces(faceTable, facesPair[1], facesPair[2])
         /\ faceMarks' = Marked(faceMarks, facesPair)
         /\ vertexTable' = V1
         /\ edgeTable' = S.E
         /\ symmetricalEdgesQueue' = S.q
         /\ enqueued' = enqueued + Len(S.q) - Len(Tail(symmetricalEdgesQueue))
         /\ lastIteration' = [kind |-> "facePair", pair |-> edgePair,
                              remarked |-> AlreadyMarked(edgeTable, edgePair),
                              skipped |-> SkippedEdges(mesh, V1.idx,
                                            [E |-> E1, q |-> Tail(symmetricalEdgesQueue)],
                                            faceConnectedEdges(mesh, facesPair[1]))]
  /\ dequeued' = dequeued + 1
  /\ UNCHANGED << mesh, siblingOrder, selection, leftSideVertexIndices, pc, sideVars >>

\* the while loop ends and findSymmetricalVertices returns
FindSymmetricalVerticesReturn ==
  /\ pc = "loop"
  /\ symmetricalEdgesQueue = << >>
  /\ pc' = "propagated"
  /\ UNCHANGED << mesh, siblingOrder, selection, vertexTable, edgeTable, faceTable,
                  propagationVars, sideVars >>

Propagate ==
  \/ FindSymmetricalVertices
  \/ DeadEndIteration
  \/ FacePairIteration
  \/ FindSymmetricalVerticesReturn

(***************************************************************************)
(* The side classifier.                                                    *)
(***************************************************************************)

\* The lists of left seed vertices handed to findVertexSides: up to
\* MaxLeftSeeds vertices, one vertex possibly several times, in ascending
\* order.
LeftSeedLists(m) ==
  { s \in UNION { [1..n -> Vertices(m)] : n \in 0..MaxLeftSeeds } :
      \A i \in 1..Len(s) - 1 : s[i] <= s[i + 1] }

\* vertexSides after "vertexSides[i] = side" for every i of the list
RECURSIVE SetSides(_, _, _)
SetSides(sides, list, side) ==
  IF list = << >> THEN sides
  ELSE SetSides([sides EXCEPT ![Head(list)] = side], Tail(list), side)

\* findVertexSides up to its first while loop
EnterFindVertexSides(seeds) ==
  /\ leftSeeds' = seeds
  /\ visitedVertices' = [v \in Vertices(mesh) |-> FALSE]
  /\ vertexSides' = SetSides([v \in Vertices(mesh) |-> 0], seeds, LEFT)
  /\ nextVertexQueue' = seeds
  /\ pc' = "leftFill"
  /\ UNCHANGED << mesh, siblingOrder, selection, vertexTable, edgeTable, faceTable,
                  propagationVars, edgeSides, faceSides, outOfBounds, runs, firstSides >>

FindVertexSides ==
  /\ pc = "propagated"
  /\ \E seeds \in LeftSeedLists(mesh) : EnterFindVertexSides(seeds)

\* the side classifier is run again with the same table and the same seeds
FindVertexSidesAgain ==
  /\ pc = "done"
  /\ runs < MaxRuns
  /\ EnterFindVertexSides(leftSeeds)

\* one iteration of the first while loop
LeftFillStep ==
  /\ pc = "leftFill"
  /\ nextVertexQueue # << >>
  /\ LET vertexIndex == Head(nextVertexQueue)
         visited == [visitedVertices EXCEPT ![vertexIndex] = TRUE]
     IN  IF visitedVertices[vertexIndex]
         THEN /\ nextVertexQueue' = Tail(nextVertexQueue)
              /\ UNCHANGED << visitedVertices, vertexSides >>
         ELSE /\ visitedVertices' = visited
              /\ IF vertexTable.idx[vertexIndex] = vertexIndex
                 THEN /\ vertexSides' = [vertexSides EXCEPT ![vertexIndex] = CENTER]
                      /\ nextVertexQueue' = Tail(nextVertexQueue)
                 ELSE /\ vertexSides' = [vertexSides EXCEPT ![vertexIndex] = LEFT]
                      /\ nextVertexQueue' =
                           Tail(nextVertexQueue) \o
                           SelectSeq(vertexConnectedVertices(mesh, vertexIndex),
                                     LAMBDA i : /\ ~visited[i]
                                                /\ vertexTable.idx[i] # vertexIndex)
  /\ UNCHANGED << mesh, siblingOrder, selection, vertexTable, edgeTable, faceTable,
                  propagationVars, edgeSides, faceSides, leftSeeds, pc, outOfBounds,
                  runs, firstSides >>

\* the partners of the left seeds, in the order of the seeds
Partners(list) == [i \in 1..Len(list) |-> vertexTable.idx[list[i]]]

\* The for loop between the two while loops.  The partner of a seed that is
\* unresolved is -1: vertexSides[-1] = RIGHT is a write before the first
\* element of the vector, which leaves every element of the vector as it is.
SeedRightFill ==
  /\ pc = "leftFill"
  /\ nextVertexQueue = << >>
  /\ nextVertexQueue' = Partners(leftSeeds)
  /\ vertexSides' = SetSides(vertexSides, Partners(leftSeeds), RIGHT)
  /\ outOfBounds' = (outOfBounds \/ contains(Partners(leftSeeds), -1))
  /\ pc' = "rightFill"
  /\ UNCHANGED << mesh, siblingOrder, selection, vertexTable, edgeTable, faceTable,
                  propagationVars, edgeSides, faceSides, leftSeeds, visitedVertices,
                  runs, firstSides >>

\* one iteration of the second while loop
RightFillStep ==
  /\ pc = "rightFill"
  /\ nextVertexQueue # << >>
  /\ Head(nextVertexQueue) # -1
  /\ LET vertexIndex == Head(nextVertexQueue)
         visited == [visitedVertices EXCEPT ![vertexIndex] = TRUE]
     IN  IF visitedVertices[vertexIndex]
         THEN /\ nextVertexQueue' = Tail(nextVertexQueue)
              /\ UNCHANGED << visitedVertices, vertexSides >>
         ELSE /\ visitedVertices' = visited
              /\ IF vertexTable.idx[vertexIndex] = vertexIndex
                 THEN /\ vertexSides' = [vertexSides EXCEPT ![vertexIndex] = CENTER]
                      /\ nextVertexQueue' = Tail(nextVertexQueue)
                 ELSE /\ vertexSides' = [vertexSides EXCEPT ![vertexIndex] = RIGHT]
                      /\ nextVertexQueue' =
                           Tail(nextVertexQueue) \o
                           SelectSeq(vertexConnectedVertices(mesh, vertexIndex),
                                     LAMBDA i : ~visited[i])
  /\ UNCHANGED << mesh, siblingOrder, selection, vertexTable, edgeTable, faceTable,
                  propagationVars, edgeSides, faceSides, leftSeeds, pc, outOfBounds,
                  runs, firstSides >>

\* An iteration of the second while loop that dequeues -1: visitedVertices[-1]
\* reads whatever lies before the vector.  Read as non-zero, the vertex counts
\* as visited and the loop goes on; read as zero, vertexData[-1] is walked and
\* the behaviour of the program is undefined from there on.
RightFillStepOutOfBounds ==
  /\ pc = "rightFill"
  /\ nextVertexQueue # << >>
  /\ Head(nextVertexQueue) = -1
  /\ \E readsVisited \in BOOLEAN :
       /\ nextVertexQueue' = Tail(nextVertexQueue)
       /\ pc' = IF readsVisited THEN "rightFill" ELSE "undefined"
  /\ outOfBounds' = TRUE
  /\ UNCHANGED << mesh, siblingOrder, selection, vertexTable, edgeTable, faceTable,
                  propagationVars, vertexSides, edgeSides, faceSides, leftSeeds,
                  visitedVertices, runs, firstSides >>

\* the second while loop ends and findVertexSides returns
FindVertexSidesReturn ==
  /\ pc = "rightFill"
  /\ nextVertexQueue = << >>
  /\ pc' = "sided"
  /\ UNCHANGED << mesh, siblingOrder, selection, vertexTable, edgeTable, faceTable,
                  propagationVars, sideVars >>

\* EdgeSide without its first branch (both vertices CENTER)
EdgeSideNoCenter(old, sv0, sv1) ==
  IF sv0 = RIGHT \/ sv1 = RIGHT THEN RIGHT
  ELSE IF sv0 = LEFT \/ sv1 = LEFT THEN LEFT
  ELSE old

\* EdgeSide with the LEFT branch tested before the RIGHT branch
EdgeSideLeftFirst(old, sv0, sv1) ==
  IF sv0 = CENTER /\ sv1 = CENTER THEN CENTER
  ELSE IF sv0 = LEFT \/ sv1 = LEFT THEN LEFT
  ELSE IF sv0 = RIGHT \/ sv1 = RIGHT THEN RIGHT
  ELSE old

\* finalizeSymmetry: the side of edge i, from its side so far and the sides
\* of its two vertices
EdgeSide(old, sv0, sv1) ==
  IF sv0 = CENTER /\ sv1 = CENTER THEN CENTER
  ELSE IF sv0 = RIGHT \/ sv1 = RIGHT THEN RIGHT
  ELSE IF sv0 = LEFT \/ sv1 = LEFT THEN LEFT
  ELSE old

\* FaceSide with "faceSides[i] += ..." for "faceSides[i] = ..."
FaceSideAccumulate(old, faceVertexSides) ==
  old + (IF contains(faceVertexSides, LEFT) THEN LEFT ELSE CENTER)
      + (IF contains(faceVertexSides, RIGHT) THEN RIGHT ELSE CENTER)

\* FaceSide with the branches of the edge loop: RIGHT wins over LEFT
FaceSideRightFirst(old, faceVertexSides) ==
  IF contains(faceVertexSides, RIGHT) THEN RIGHT
  ELSE IF contains(faceVertexSides, LEFT) THEN LEFT
  ELSE CENTER

\* finalizeSymmetry: the side of face i, from its side so far and the sides
\* of the vertices of its loop
FaceSide(old, faceVertexSides) ==
  (IF contains(faceVertexSides, LEFT) THEN LEFT ELSE CENTER)
    + (IF contains(faceVertexSides, RIGHT) THEN RIGHT ELSE CENTER)

SidesOf(list) == [j \in 1..Len(list) |-> vertexSides[list[j]]]

FinalizeSymmetry ==
  /\ pc = "sided"
  /\ edgeSides' = [i \in Edges(mesh) |->
                     EdgeSide(edgeSides[i],
                              vertexSides[edgeConnectedVertices(mesh, i)[1]],
                              vertexSides[edgeConnectedVertices(mesh, i)[2]])]
  /\ faceSides' = [i \in Faces(mesh) |->
                     FaceSide(faceSides[i], SidesOf(faceConnectedVertices(mesh, i)))]
  /\ runs' = runs + 1
  /\ firstSides' = IF runs = 0 THEN << vertexSides, edgeSides', faceSides' >>
                   ELSE firstSides
  /\ pc' = "done"
  /\ UNCHANGED << mesh, siblingOrder, selection, vertexTable, edgeTable, faceTable,
                  propagationVars, vertexSides, leftSeeds, visitedVertices,
                  nextVertexQueue, outOfBounds >>

Classify ==
  \/ FindVertexSides
  \/ FindVertexSidesAgain
  \/ LeftFillStep
  \/ SeedRightFill
  \/ RightFillStep
  \/ RightFillStepOutOfBounds
  \/ FindVertexSidesReturn
  \/ FinalizeSymmetry

Next == Propagate \/ Classify

Spec == Init /\ [][Next]_vars

PropagationSpec == InitAnySeed /\ [][Propagate]_vars /\ WF_vars(Propagate)

\* the propagation from a symmetrical seed on the meshes with large faces
InitLargeFaces ==
  /\ mesh \in LargeFaceMeshes
  /\ siblingOrder \in SiblingOrders
  /\ selection \in SymmetricSelections(mesh)
  /\ Reset(mesh)

LargeFaceSpec == InitLargeFaces /\ [][Propagate]_vars /\ WF_vars(Propagate)
(***************************************************************************)
(* The claims.                                                             *)
(***************************************************************************)

Tables == << vertexTable, edgeTable, faceTable >>

\* the vertices that edges connect to the vertices of S
RECURSIVE ShellOf(_, _)
ShellOf(m, S) ==
  LET N == S \cup { w \in Vertices(m) :
                      \E e \in Edges(m) : /\ w \in Range(edgeConnectedVertices(m, e))
                                          /\ Range(edgeConnectedVertices(m, e)) \cap S # {} }
  IN  IF N = S THEN S ELSE ShellOf(m, N)

\* the vertices, edges and faces of the seed's connected shell
SeedShellVertices ==
  ShellOf(mesh, Range(edgeConnectedVertices(mesh, selection.edgeIndices[1]))
                  \cup Range(edgeConnectedVertices(mesh, selection.edgeIndices[2])))
SeedShellEdges ==
  { e \in Edges(mesh) : Range(edgeConnectedVertices(mesh, e)) \subseteq SeedShellVertices }
SeedShellFaces ==
  { f \in Faces(mesh) : Range(faceConnectedVertices(mesh, f)) \subseteq SeedShellVertices }

Involutive(T) ==
  \A c \in DOMAIN T.idx :
    T.ex[c] => /\ T.idx[c] \in DOMAIN T.idx
               /\ T.idx[T.idx[c]] = c
               /\ T.ex[T.idx[c]]

\* C1: in every state of findSymmetricalVertices, from seed resolution on and
\* after every iteration of the worklist loop, every examined vertex, edge
\* and face c has symmetryIndex[symmetryIndex[c]] = c and an examined partner.
C1_Involution == \A i \in 1..3 : Involutive(Tables[i])

\* C1 witness: the worklist loop has found a pair of faces of its own, and
\* the table holds a pair of distinct vertices and a self-symmetric vertex.
C1_Witness ==
  /\ lastIteration.kind = "facePair"
  /\ \E v, w \in Vertices(mesh) :
       /\ vertexTable.ex[v] /\ vertexTable.idx[v] # v
       /\ vertexTable.ex[w] /\ vertexTable.idx[w] = w

\* C2: when findSymmetricalVertices returns, every vertex, edge and face of
\* the seed's connected shell is examined and has a partner other than -1.
C2_Coverage ==
  pc = "propagated" =>
    /\ \A v \in SeedShellVertices : vertexTable.ex[v] /\ vertexTable.idx[v] # -1
    /\ \A e \in SeedShellEdges : edgeTable.ex[e] /\ edgeTable.idx[e] # -1
    /\ \A f \in SeedShellFaces : faceTable.ex[f] /\ faceTable.idx[f] # -1

\* findVertexSides has run to its end
SidesFound == pc \in {"sided", "done"}

\* C3: after findVertexSides, with any left seeds, every vertex v with
\* vertexSymmetryIndices[v] = v has vertexSides[v] = CENTER.
C3_SelfSymmetricIsCenter ==
  SidesFound =>
    \A v \in Vertices(mesh) : vertexTable.idx[v] = v => vertexSides[v] = CENTER

\* the mirrors of the mesh that the seed is symmetrical under
SeedMirrors ==
  { k \in DOMAIN Meshes[mesh].mirrors :
      /\ MirrorEdge(mesh, k, selection.edgeIndices[1]) = selection.edgeIndices[2]
      /\ MirrorFace(mesh, k, selection.faceIndices[1]) = selection.faceIndices[2]
      /\ MirrorVertex(mesh, k, selection.vertexIndices[1]) = selection.vertexIndices[2] }

\* the left seeds are vertices of the left side of the seed's mirror, and
\* every one of them is resolved
LeftSeedsOnTheLeft ==
  /\ leftSeeds # << >>
  /\ \E k \in SeedMirrors : Range(leftSeeds) \subseteq Meshes[mesh].left[k]
  /\ \A v \in Range(leftSeeds) : vertexTable.ex[v]

\* C4: after findVertexSides on the table of a finished propagation, with
\* left seeds that are on the left, every resolved vertex v with
\* vertexSymmetryIndices[v] # v is on the other side than its partner, and
\* neither of the two is CENTER.
C4_OppositeSides ==
  SidesFound /\ LeftSeedsOnTheLeft =>
    \A v \in Vertices(mesh) :
      vertexTable.ex[v] /\ vertexTable.idx[v] # v =>
        /\ vertexSides[v] # vertexSides[vertexTable.idx[v]]
        /\ vertexSides[v] # CENTER
        /\ vertexSides[vertexTable.idx[v]] # CENTER

ExaminedEdges == { e \in Edges(mesh) : edgeTable.ex[e] }

\* C5: the worklist of findSymmetricalVertices empties, for every seed,
\* after at most one iteration per edge and one more.  QueueBound is the
\* variant: no more pairs are dequeued than were enqueued, no more are
\* enqueued than one (the seed pair) plus the number of examined edges, and
\* the queue holds the pairs enqueued and not yet dequeued.  Every step of
\* the loop keeps QueueBound and either dequeues exactly one pair, enqueueing
\* no more pairs than edges become examined in that step, or leaves the loop
\* with the queue empty; so the loop is left after at most
\* 1 + numberOfEdges iterations.
QueueBound ==
  /\ dequeued <= enqueued
  /\ enqueued <= 1 + Cardinality(ExaminedEdges)
  /\ dequeued <= 1 + numberOfEdges(mesh)
  /\ (pc = "loop" => Len(symmetricalEdgesQueue) = enqueued - dequeued)
  /\ (pc = "propagated" => symmetricalEdgesQueue = << >> /\ dequeued = enqueued)

C5_Termination ==
  [][ /\ QueueBound
      /\ QueueBound'
      /\ pc = "loop" =>
            \/ /\ pc' = "loop"
               /\ symmetricalEdgesQueue # << >>
               /\ dequeued' = dequeued + 1
               /\ enqueued' - enqueued <=
                    Cardinality(ExaminedEdges') - Cardinality(ExaminedEdges)
            \/ /\ pc' = "propagated"
               /\ symmetricalEdgesQueue = << >>
               /\ symmetricalEdgesQueue' = << >> ]_vars

\* C5 witness: the loop has run dry after pairs other than the seed pair
\* were enqueued and dequeued.
C5_Witness == pc = "propagated" /\ enqueued >= 3 /\ dequeued = enqueued

\* the components of the mesh outside the seed's shell are as reset() left
\* them, with side CENTER
OutsideUntouched ==
  /\ \A v \in Vertices(mesh) \ SeedShellVertices :
       ~vertexTable.ex[v] /\ vertexTable.idx[v] = -1 /\ vertexSides[v] = CENTER
  /\ \A e \in Edges(mesh) \ SeedShellEdges :
       ~edgeTable.ex[e] /\ edgeTable.idx[e] = -1 /\ edgeSides[e] = CENTER
  /\ \A f \in Faces(mesh) \ SeedShellFaces :
       ~faceTable.ex[f] /\ faceTable.idx[f] = -1 /\ faceSides[f] = CENTER

\* C6: after propagation from a seed in one shell and the side classifier
\* (findVertexSides, finalizeSymmetry) with left seeds in that shell, every
\* vertex, edge and face of another shell is unexamined, has symmetry index
\* -1 and side CENTER.
C6_DisconnectedShell ==
  pc = "done" /\ Range(leftSeeds) \subseteq SeedShellVertices => OutsideUntouched

\* C6 witness: a mesh of two shells, classified with a left seed in the
\* seed's shell.
C6_Witness ==
  /\ pc = "done"
  /\ leftSeeds # << >>
  /\ Range(leftSeeds) \subseteq SeedShellVertices
  /\ SeedShellVertices # Vertices(mesh)
  /\ \E v \in SeedShellVertices : vertexSides[v] = LEFT

\* the faces on an edge, and those of a set that are unexamined
FacesOn(e) == { f \in Faces(mesh) : EdgeOnFace(mesh, e, f) }
Unexamined(S) == { f \in S : ~faceTable.ex[f] }

\* the edge pair has no pair of unexamined faces: of the faces the two edges
\* share fewer than two are unexamined or, when they share none, one of the
\* edges has no unexamined face
NoFacePair(edgePair) ==
  IF FacesOn(edgePair[1]) \cap FacesOn(edgePair[2]) # {}
  THEN Cardinality(Unexamined(FacesOn(edgePair[1]) \cap FacesOn(edgePair[2]))) < 2
  ELSE Unexamined(FacesOn(edgePair[1])) = {} \/ Unexamined(FacesOn(edgePair[2])) = {}

\* C7: an iteration that dequeues a pair (e0, e1) with no pair of unexamined
\* faces marks no face and no vertex and enqueues nothing; it marks (e0, e1),
\* changes no other entry of the edge table, and the loop goes on.
C7_DeadEnd ==
  [][ pc = "loop" /\ symmetricalEdgesQueue # << >>
        /\ NoFacePair(Head(symmetricalEdgesQueue))
      => LET e0 == Head(symmetricalEdgesQueue)[1]
             e1 == Head(symmetricalEdgesQueue)[2]
         IN  /\ faceTable' = faceTable
             /\ vertexTable' = vertexTable
             /\ symmetricalEdgesQueue' = Tail(symmetricalEdgesQueue)
             /\ enqueued' = enqueued
             /\ pc' = "loop"
             /\ edgeTable'.idx[e0] = e1 /\ edgeTable'.idx[e1] = e0
             /\ edgeTable'.ex[e0] /\ edgeTable'.ex[e1]
             /\ \A e \in Edges(mesh) \ {e0, e1} :
                  /\ edgeTable'.idx[e] = edgeTable.idx[e]
                  /\ edgeTable'.ex[e] = edgeTable.ex[e] ]_vars

\* C7 witness: a dead-end iteration has run and the queue holds a next pair.
C7_Witness ==
  /\ pc = "loop"
  /\ lastIteration.kind = "deadEnd"
  /\ symmetricalEdgesQueue # << >>

\* C8: a second run of findVertexSides and finalizeSymmetry on the same
\* table with the same left seeds leaves the vertex, edge and face sides of
\* the first run.
C8_Idempotence ==
  pc = "done" /\ runs >= 2 => << vertexSides, edgeSides, faceSides >> = firstSides

\* C8 witness: the second run is over, and it had vertices to put on the
\* left and on the right.
C8_Witness ==
  /\ pc = "done" /\ runs = 2
  /\ \E v, w \in Vertices(mesh) : vertexSides[v] = LEFT /\ vertexSides[w] = RIGHT
  /\ \E f \in Faces(mesh) : faceSides[f] # CENTER

\* C9: on the table of every state, for every pair (a, b), a = b too, each
\* of markSymmetricalVertices, markSymmetricalEdges and markSymmetricalFaces
\* called a second time with the pair leaves the table of the first call.
C9_MarkIdempotent ==
  /\ \A a, b \in Vertices(mesh) :
       markSymmetricalVertices(markSymmetricalVertices(vertexTable, a, b), a, b)
         = markSymmetricalVertices(vertexTable, a, b)
  /\ \A a, b \in Edges(mesh) :
       markSymmetricalEdges(markSymmetricalEdges(edgeTable, a, b), a, b)
         = markSymmetricalEdges(edgeTable, a, b)
  /\ \A a, b \in Faces(mesh) :
       markSymmetricalFaces(markSymmetricalFaces(faceTable, a, b), a, b)
         = markSymmetricalFaces(faceTable, a, b)

\* C9 witness: the worklist loop has marked a pair (e, e) that
\* findSymmetricalEdgesOnFace had marked before.
C9_Witness ==
  /\ lastIteration.remarked
  /\ lastIteration.pair[1] = lastIteration.pair[2]

\* C10: no step of a propagation takes an entry out of the table: an
\* examined vertex, edge or face stays examined, and the symmetry index of an
\* examined one is never -1.
C10_NoRemoval ==
  [][ \A i \in 1..3 : \A c \in DOMAIN Tables[i].ex :
        /\ Tables[i].ex[c] => Tables'[i].ex[c]
        /\ Tables'[i].ex[c] => Tables'[i].idx[c] # -1 ]_vars

\* C10 witness: a pair that was in the table already has been dequeued and
\* marked again, and a next pair waits.
C10_Witness ==
  /\ pc = "loop"
  /\ lastIteration.remarked
  /\ lastIteration.pair[1] # lastIteration.pair[2]
  /\ dequeued >= 2

\* the sides of the vertices of face f
LoopSides(f) == { vertexSides[v] : v \in Range(faceConnectedVertices(mesh, f)) }

\* C11: after finalizeSymmetry every face is LEFT when its vertex loop has a
\* LEFT vertex and no RIGHT vertex, RIGHT when it has a RIGHT vertex and no
\* LEFT vertex, and CENTER otherwise; a face with a LEFT and a RIGHT vertex
\* is CENTER, also when none of its vertices is CENTER.
C11_FaceSides ==
  pc = "done" =>
    \A f \in Faces(mesh) :
      faceSides[f] = IF LEFT \in LoopSides(f) /\ RIGHT \notin LoopSides(f) THEN LEFT
                     ELSE IF RIGHT \in LoopSides(f) /\ LEFT \notin LoopSides(f) THEN RIGHT
                     ELSE CENTER

\* C11 witness: finalizeSymmetry has run on a face whose loop has LEFT and
\* RIGHT vertices and no CENTER vertex, and on a face that is all LEFT.
C11_Witness ==
  /\ pc = "done"
  /\ \E f \in Faces(mesh) : LoopSides(f) = {LEFT, RIGHT} /\ faceSides[f] = CENTER
  /\ \E f \in Faces(mesh) : LoopSides(f) = {LEFT} /\ faceSides[f] = LEFT

\* the sides of the two vertices of edge e
EndSides(e) == << vertexSides[edgeConnectedVertices(mesh, e)[1]],
                 vertexSides[edgeConnectedVertices(mesh, e)[2]] >>

\* C12: after finalizeSymmetry every edge is CENTER when both its vertices
\* are CENTER, else RIGHT when one of them is RIGHT, else LEFT; so an edge from
\* a LEFT to a RIGHT vertex is RIGHT, and every edge side is LEFT, RIGHT or
\* CENTER.
C12_EdgeSides ==
  pc = "done" =>
    \A e \in Edges(mesh) :
      /\ edgeSides[e] = IF EndSides(e) = << CENTER, CENTER >> THEN CENTER
                        ELSE IF RIGHT \in Range(EndSides(e)) THEN RIGHT
                        ELSE LEFT
      /\ edgeSides[e] \in {LEFT, RIGHT, CENTER}

\* C12 witness: finalizeSymmetry has run on an edge from a LEFT to a RIGHT
\* vertex, on an edge from a LEFT to a CENTER vertex and on an edge between
\* CENTER vertices.
C12_Witness ==
  /\ pc = "done"
  /\ \E e \in Edges(mesh) : Range(EndSides(e)) = {LEFT, RIGHT} /\ edgeSides[e] = RIGHT
  /\ \E e \in Edges(mesh) : Range(EndSides(e)) = {LEFT, CENTER} /\ edgeSides[e] = LEFT
  /\ \E e \in Edges(mesh) : Range(EndSides(e)) = {CENTER} /\ edgeSides[e] = CENTER

\* the faces a step has made examined
NewFaces == { f \in Faces(mesh) : ~faceTable.ex[f] /\ faceTable'.ex[f] }

\* C13: over a run of findSymmetricalVertices no face is given to
\* markSymmetricalFaces more than once; the partner of an examined face never
\* changes; and a loop iteration that dequeues (e0, e1) and marks faces marks
\* two faces that were unexamined, as partners of each other, the first on
\* e0 and the second on e1.
C13_FacePairOnce ==
  [][ /\ \A f \in Faces(mesh) :
           /\ faceMarks'[f] <= 1
           /\ faceTable.ex[f] => faceTable'.ex[f] /\ faceTable'.idx[f] = faceTable.idx[f]
      /\ pc = "loop" /\ faceTable' # faceTable =>
           \E f0, f1 \in NewFaces :
             /\ NewFaces = {f0, f1}
             /\ f0 # f1
             /\ faceTable'.idx[f0] = f1 /\ faceTable'.idx[f1] = f0
             /\ EdgeOnFace(mesh, Head(symmetricalEdgesQueue)[1], f0)
             /\ EdgeOnFace(mesh, Head(symmetricalEdgesQueue)[2], f1) ]_vars

\* C13 witness: the loop has run dry after it marked pairs of faces, through
\* edges that share faces or through edges that do not, and every examined
\* face was given to markSymmetricalFaces once.
C13_Witness ==
  /\ pc = "propagated"
  /\ Cardinality({ f \in Faces(mesh) : faceTable.ex[f] }) >= 4
  /\ \A f \in Faces(mesh) : faceTable.ex[f] => faceMarks[f] = 1

\* the vertices of the two edges of a pair, and of the two faces of a pair
EdgePairVertices(edgePair) ==
  Range(edgeConnectedVertices(mesh, edgePair[1]))
    \cup Range(edgeConnectedVertices(mesh, edgePair[2]))
FacePairVertices(facePair) ==
  Range(faceConnectedVertices(mesh, facePair[1]))
    \cup Range(faceConnectedVertices(mesh, facePair[2]))

\* the pair of faces the loop finds for the pair at the head of the queue
FoundFaces == getUnexaminedFaces(mesh, faceTable.ex, Head(symmetricalEdgesQueue))

\* C14: when findSymmetricalVerticesOnFace returns for a pair of faces (f0, f1)
\* reached through a pair of edges whose vertices are resolved, every vertex
\* of the loop of f0 and of the loop of f1 is examined.  The pair of faces is
\* the seed's at seed resolution, where the vertices of the seed edges have
\* just been marked, and the pair found for the dequeued edges in the loop.
C14_FaceLoopCovered ==
  [][ /\ pc = "start" =>
           \A v \in FacePairVertices(selection.faceIndices) : vertexTable'.ex[v]
      /\ ( /\ pc = "loop"
           /\ symmetricalEdgesQueue # << >>
           /\ -1 \notin Range(FoundFaces)
           /\ \A v \in EdgePairVertices(Head(symmetricalEdgesQueue)) : vertexTable.ex[v] )
         => \A v \in FacePairVertices(FoundFaces) : vertexTable'.ex[v] ]_vars

\* C14 witness: the loop has found a pair of faces with unexamined vertices
\* through a pair of edges with resolved vertices, and the vertices of the
\* two faces are examined now.
C14_Witness ==
  /\ lastIteration.kind = "facePair"
  /\ dequeued >= 2
  /\ \A v \in EdgePairVertices(lastIteration.pair) : vertexTable.ex[v]
  /\ \E f \in Faces(mesh) :
       /\ faceTable.ex[f]
       /\ f \notin Range(selection.faceIndices)
       /\ EdgeOnFace(mesh, lastIteration.pair[1], f)
       /\ \A v \in Range(faceConnectedVertices(mesh, f)) : vertexTable.ex[v]

\* findSymmetricalEdgesOnFace as the coming iteration calls it once it has
\* found a pair of faces: the vertex indices, the table and queue it starts
\* from, and the edges of the first face
FindingFaces ==
  pc = "loop" /\ symmetricalEdgesQueue # << >> /\ -1 \notin Range(FoundFaces)
ComingVidx ==
  findSymmetricalVerticesOnFace(mesh, siblingOrder, vertexTable, FoundFaces).idx
ComingStart ==
  [ E |-> markSymmetricalEdges(edgeTable, Head(symmetricalEdgesQueue)[1],
                               Head(symmetricalEdgesQueue)[2]),
    q |-> Tail(symmetricalEdgesQueue) ]
ComingEdges == faceConnectedEdges(mesh, FoundFaces[1])

\* the table and queue when the for loop has gone through the first i edges
ComingAfter(i) ==
  FaceEdgesLoop(mesh, ComingVidx, ComingStart, SubSeq(ComingEdges, 1, i))

\* C15: in findSymmetricalEdgesOnFace an unexamined edge e whose vertices have
\* resolved partners that share no edge, or more than one, is passed over: the
\* edge table and the queue are after e what they were before e, e is
\* unexamined with index -1, the loop goes on with the edges after e, and e is
\* still unresolved when the iteration is over.
C15_AmbiguousEdgeSkipped ==
  [][ FindingFaces =>
        \A i \in 1..Len(ComingEdges) :
          SkippedAt(mesh, ComingVidx, ComingStart, ComingEdges, i) =>
            /\ ComingAfter(i) = ComingAfter(i - 1)
            /\ ~ComingAfter(i).E.ex[ComingEdges[i]]
            /\ ComingAfter(i).E.idx[ComingEdges[i]] = -1
            /\ edgeTable' = FaceEdgesLoop(mesh, ComingVidx, ComingAfter(i),
                                          SubSeq(ComingEdges, i + 1, Len(ComingEdges))).E
            /\ ~edgeTable'.ex[ComingEdges[i]]
            /\ edgeTable'.idx[ComingEdges[i]] = -1
            /\ \A j \in 1..Len(symmetricalEdgesQueue') :
                 ComingEdges[i] \notin Range(symmetricalEdgesQueue'[j])
            /\ pc' = "loop" ]_vars

\* C15 witness: the latest iteration passed over an edge whose vertices have
\* partners that share no edge, went on to mark a later edge of the face, and
\* the edge is unresolved.
C15_Witness ==
  /\ lastIteration.kind = "facePair"
  /\ \E x \in lastIteration.skipped :
       /\ x[2] = 0
       /\ ~edgeTable.ex[x[1]] /\ edgeTable.idx[x[1]] = -1
  /\ symmetricalEdgesQueue # << >>

\* the step of findVertexSides that seeds the right flood fill
SeedingRight == pc = "leftFill" /\ pc' = "rightFill"

\* C16: every seed of the right flood fill is the symmetry partner of a left
\* seed, is a vertex of the mesh and is not that left seed, and marking the
\* seeds RIGHT leaves the side of every vertex that the left flood fill
\* visited as it is.
C16_RightSeeds ==
  [][ SeedingRight =>
        /\ nextVertexQueue' = Partners(leftSeeds)
        /\ \A i \in 1..Len(leftSeeds) :
             /\ vertexTable.idx[leftSeeds[i]] \in Vertices(mesh)
             /\ vertexTable.idx[leftSeeds[i]] # leftSeeds[i]
        /\ \A v \in Vertices(mesh) :
             visitedVertices[v] => vertexSides'[v] = vertexSides[v] ]_vars


\* a flood fill of findVertexSides is about to dequeue a vertex
Filling == pc \in {"leftFill", "rightFill"} /\ nextVertexQueue # << >>

\* the pushes that the vertices of S can still cause, one more for each
RECURSIVE FillWeight(_)
FillWeight(S) ==
  IF S = {} THEN 0
  ELSE LET v == CHOOSE x \in S : TRUE
       IN  1 + Len(vertexConnectedVertices(mesh, v)) + FillWeight(S \ {v})

\* the variant of the two while loops: the length of the queue and the
\* weight of the vertices not yet visited
FillVariant ==
  Len(nextVertexQueue) + FillWeight({ v \in Vertices(mesh) : ~visitedVertices[v] })

\* C17: both flood fills of findVertexSides drain their queue, and a vertex
\* is marked visited and given a side by a dequeue at most once over the two
\* fills.  Every iteration stays in its loop and decreases FillVariant, a
\* loop with an empty queue is left, and only the dequeued vertex, not
\* visited before, becomes visited and is given a side.
C17_ClassifierTerminates ==
  [][ /\ Filling =>
           /\ pc' = pc
           /\ FillVariant' < FillVariant
           /\ \A v \in Vertices(mesh) :
                /\ visitedVertices[v] => visitedVertices'[v]
                /\ (visitedVertices'[v] # visitedVertices[v]
                      \/ vertexSides'[v] # vertexSides[v]) =>
                     /\ v = Head(nextVertexQueue)
                     /\ ~visitedVertices[v]
                     /\ visitedVertices'[v]
      /\ (pc = "leftFill" /\ nextVertexQueue = << >>) => pc' = "rightFill"
      /\ (pc = "rightFill" /\ nextVertexQueue = << >>) => pc' = "sided" ]_vars


\* the two vertices of edge e
EndVertices(e) == Range(edgeConnectedVertices(mesh, e))

\* the symmetry partners of the two vertices of edge e
EndPartners(e) == { vertexTable.idx[v] : v \in EndVertices(e) }

\* C18: in every state after seed resolution, the two vertices of the
\* partner of an examined edge are exactly the symmetry partners of the two
\* vertices of the edge.
C18_EdgesAgreeWithVertices ==
  pc # "start" =>
    \A e \in Edges(mesh) :
      edgeTable.ex[e] => EndVertices(edgeTable.idx[e]) = EndPartners(e)

\* the propagation has ended with seven edges or more examined, some of
\* them with another edge for partner and some symmetrical to themselves
C18_Witness ==
  /\ pc = "propagated"
  /\ Cardinality(ExaminedEdges) >= 7
  /\ \E e \in ExaminedEdges : edgeTable.idx[e] # e
  /\ \E e \in ExaminedEdges : edgeTable.idx[e] = e


\* marking the pair p symmetrical in table T leaves every partner that T
\* has given as it is
KeepsPartners(T, p) ==
  /\ T.ex[p[1]] => T.idx[p[1]] = p[2]
  /\ T.ex[p[2]] => T.idx[p[2]] = p[1]

\* the vertex table T after the marks of a sequence of pairs
RECURSIVE AfterMarks(_, _)
AfterMarks(T, marks) ==
  IF marks = << >> THEN T
  ELSE AfterMarks(markSymmetricalVertices(T, Head(marks)[1], Head(marks)[2]),
                  Tail(marks))

\* every mark of the sequence keeps the partners given before it
RECURSIVE MarksKeepPartners(_, _)
MarksKeepPartners(T, marks) ==
  \/ marks = << >>
  \/ /\ KeepsPartners(T, Head(marks))
     /\ MarksKeepPartners(markSymmetricalVertices(T, Head(marks)[1], Head(marks)[2]),
                          Tail(marks))

\* the marks of findSymmetricalVerticesOnFace on the vertex table VT
VerticesOnFaceMarks(VT, facePair) ==
  FaceVerticesMarks(mesh, siblingOrder, VT,
                    SelectSeq(faceConnectedVertices(mesh, facePair[1]),
                              LAMBDA v : VT.ex[v]),
                    facePair)

\* the vertex marks of findFirstSymmetricalVertices, in the order of the calls
SeedVertexMarks ==
  LET V1 == markSymmetricalVertices(vertexTable, selection.vertexIndices[1],
                                    selection.vertexIndices[2])
      next == nextVertexOnEdges(mesh, V1.ex, selection.edgeIndices)
      V2 == markSymmetricalVertices(V1, next[1], next[2])
  IN  << selection.vertexIndices, next >> \o
      VerticesOnFaceMarks(V2, selection.faceIndices)

\* the vertex marks of the coming iteration of the while loop
ComingVertexMarks == VerticesOnFaceMarks(vertexTable, FoundFaces)

\* C19: during findSymmetricalVertices a vertex or an edge that has a
\* symmetry partner keeps it: over every step of the run, and over every
\* single call of markSymmetricalVertices and markSymmetricalEdges inside a
\* step (seed resolution, the mark of the dequeued edge pair, the vertices
\* and the edges of a found face pair), a mark of an examined vertex or edge
\* uses the pair it already has.
C19_PartnerStability ==
  [][ /\ \A v \in Vertices(mesh) :
           vertexTable.ex[v] =>
             vertexTable'.ex[v] /\ vertexTable'.idx[v] = vertexTable.idx[v]
      /\ \A e \in Edges(mesh) :
           edgeTable.ex[e] =>
             edgeTable'.ex[e] /\ edgeTable'.idx[e] = edgeTable.idx[e]
      /\ pc = "start" =>
           /\ MarksKeepPartners(vertexTable, SeedVertexMarks)
           /\ vertexTable' = AfterMarks(vertexTable, SeedVertexMarks)
      /\ (pc = "loop" /\ symmetricalEdgesQueue # << >>) =>
           KeepsPartners(edgeTable, Head(symmetricalEdgesQueue))
      /\ FindingFaces =>
           /\ MarksKeepPartners(vertexTable, ComingVertexMarks)
           /\ vertexTable' = AfterMarks(vertexTable, ComingVertexMarks)
           /\ \A i \in 1..Len(ComingEdges) :
                \A e \in Edges(mesh) :
                  ComingAfter(i - 1).E.ex[e] =>
                    ComingAfter(i).E.idx[e] = ComingAfter(i - 1).E.idx[e]
           /\ edgeTable' = ComingAfter(Len(ComingEdges)).E ]_vars

\* the propagation has ended, its last iteration marked an edge pair that
\* was already marked, and seven edges or more and five vertices or more
\* have partners
C19_Witness ==
  /\ pc = "propagated"
  /\ lastIteration.remarked
  /\ Cardinality(ExaminedEdges) >= 7
  /\ Cardinality({ v \in Vertices(mesh) : vertexTable.ex[v] }) >= 5

==============================================================================
